---- MODULE Spec2Model ----
(***************************************************************************)
(* A model of ocr_scroll_tool.py: the hotkey dispatcher (on_mark_topleft,  *)
(* on_mark_bottomright, on_capture, on_stop) and the capture_loop worker   *)
(* thread it starts, over the module's global variables.                   *)
(***************************************************************************)
EXTENDS Integers, Sequences, FiniteSets, TLC

\* ------------------------------------------------------------------ bounds
\* Screen coordinates range over 0..MaxCoord.
MaxCoord == 2
\* Spec: the worker appends to ocr_buffer only while it is shorter than MaxLog.
MaxLog == 2
\* SpecHist: the number of hotkey commands of a run.
MaxCmds == 3
\* SpecPolls: the number of frames grabbed in a run.
MaxPolls == 4

\* ------------------------------------------------------------------ values
\* Python's None, where a point or a frame may stand: the empty tuple.
None == <<>>

Coords == 0..MaxCoord
\* mouse_controller.position: an (x, y) pair of integers.
Points == Coords \X Coords

\* A bitmap of the region: the sequence list(img.getdata()) of its pixels.
\* X and Y differ in exactly one pixel, and so do Y and Z.
X == <<0, 0>>
Y == <<0, 1>>
Z == <<1, 1>>
Frames == {X, Y, Z}

WhiteSpace == {" ", "\n"}
\* Results of pytesseract.image_to_string: sequences of characters.
Texts == {<<>>, <<" ">>, <<"a">>, <<" ", "a", "\n">>, <<"b">>}

\* ------------------------------------------------------------ pure helpers
\* int(v) of an integer coordinate (truncation toward zero of a whole number).
int(v) == IF v >= 0 THEN v - (v % 1) ELSE -((-v) - ((-v) % 1))

RECURSIVE lstrip(_)
lstrip(s) == IF s # <<>> /\ Head(s) \in WhiteSpace THEN lstrip(Tail(s)) ELSE s

RECURSIVE rstrip(_)
rstrip(s) == IF s # <<>> /\ s[Len(s)] \in WhiteSpace
             THEN rstrip(SubSeq(s, 1, Len(s) - 1)) ELSE s

\* str.strip(): leading and trailing whitespace removed.
strip(s) == rstrip(lstrip(s))

\* Line 91 comparing the text with the last chunk as it stands, unstripped.
ShouldAppend_Unstripped(buf, text) ==
    /\ strip(text) # <<>>
    /\ (buf = <<>> \/ text # buf[Len(buf)])

\* Line 91 testing the text itself, not text.strip().
ShouldAppend_AnyText(buf, text) ==
    /\ text # <<>>
    /\ (buf = <<>> \/ strip(text) # strip(buf[Len(buf)]))

\* The test of line 91: text.strip() is truthy and differs from the stripped
\* last chunk of the buffer (or the buffer is empty).
ShouldAppend(buf, text) ==
    /\ strip(text) # <<>>
    /\ (buf = <<>> \/ strip(text) # strip(buf[Len(buf)]))

\* The comparison of line 85 looking at the first pixel only.
HasChanged_FirstPixel(prev, img) == prev = None \/ img[1] # prev[1]

\* The comparison of line 85 without the case of line 74's None.
HasChanged_NoFirst(prev, img) == prev # None /\ img # prev

\* Line 85 taking every frame as changed.
HasChanged_Always(prev, img) == TRUE

\* The test of line 85: no previous capture, or the pixel lists differ.
HasChanged(prev, img) == prev = None \/ img # prev

\* The test of line 58: the point is not strictly lower-right of top_left.
BadOrder(tl, br) == br[1] <= tl[1] \/ br[2] <= tl[2]

RECURSIVE join_Stripped(_)
\* The chunks joined after stripping each of them.
join_Stripped(chunks) ==
    IF chunks = <<>> THEN <<>>
    ELSE IF Len(chunks) = 1 THEN strip(chunks[1])
    ELSE strip(chunks[1]) \o <<"\n">> \o join_Stripped(Tail(chunks))

RECURSIVE join(_)
\* "\n".join(chunks)
join(chunks) ==
    IF chunks = <<>> THEN <<>>
    ELSE IF Len(chunks) = 1 THEN chunks[1]
    ELSE chunks[1] \o <<"\n">> \o join(Tail(chunks))

\* ------------------------------------------------------------------- state
VARIABLES
    top_left,        \* global top_left: None or a point
    bottom_right,    \* global bottom_right: None or a point
    region_ready,    \* global region_ready
    ocr_buffer,      \* global ocr_buffer: the list of text chunks
    capturing,       \* global capturing
    capture_thread,  \* global capture_thread: 0 (None) or an index of threads
    prev_capture,    \* global prev_capture: None or a frame
    threads,         \* the capture_loop threads started, each with its locals
    listener,        \* the GlobalHotKeys listener: "running" or "stopped"
    pc,              \* the dispatcher: "listen", or its position in on_stop
    files,           \* the contents of the files written by on_stop
    hist,            \* history: the hotkey commands dispatched
    polls            \* history: the frames grabbed and the OCR results

globals == <<top_left, bottom_right, region_ready, ocr_buffer, capturing,
             capture_thread, prev_capture>>
prog == <<globals, threads, listener, pc, files>>
vars == <<prog, hist, polls>>

\* The locals of a capture_loop thread that has just been started.
NewThread == [at |-> "x1", bbox |-> <<>>, img |-> None]

Finished(t) == threads[t].at \in {"done", "raised"}
Live == {t \in DOMAIN threads : ~Finished(t)}

Init ==
    /\ top_left = None
    /\ bottom_right = None
    /\ region_ready = FALSE
    /\ ocr_buffer = <<>>
    /\ capturing = FALSE
    /\ capture_thread = 0
    /\ prev_capture = None
    /\ threads = <<>>
    /\ listener = "running"
    /\ pc = "listen"
    /\ files = <<>>
    /\ hist = <<>>
    /\ polls = [frames |-> <<>>, texts |-> <<>>]

\* --------------------------------------------------------------- dispatcher
on_mark_topleft(p) ==
    /\ pc = "listen"
    /\ top_left' = p
    /\ UNCHANGED <<bottom_right, region_ready, ocr_buffer, capturing,
                   capture_thread, prev_capture, threads, listener, pc, files>>

on_mark_bottomright(p) ==
    /\ pc = "listen"
    /\ bottom_right' = p
    /\ region_ready' = IF top_left = None THEN region_ready
                       ELSE IF BadOrder(top_left, p) THEN region_ready
                       ELSE TRUE
    /\ UNCHANGED <<top_left, ocr_buffer, capturing, capture_thread,
                   prev_capture, threads, listener, pc, files>>

\* on_capture as a toggle: pressed during a capture it clears the flag.
on_capture_Toggle ==
    /\ pc = "listen"
    /\ IF ~region_ready
       THEN UNCHANGED <<capturing, prev_capture, threads, capture_thread>>
       ELSE IF capturing
       THEN /\ capturing' = FALSE
            /\ UNCHANGED <<prev_capture, threads, capture_thread>>
       ELSE /\ capturing' = TRUE
            /\ prev_capture' = None
            /\ threads' = Append(threads, NewThread)
            /\ capture_thread' = Len(threads) + 1
    /\ UNCHANGED <<top_left, bottom_right, region_ready, ocr_buffer,
                   listener, pc, files>>

\* on_capture without the test of line 70.
CaptureRefused_Reentrant == ~region_ready

\* on_capture without the test of line 67.
CaptureRefused_Unready == capturing

\* Lines 67-72: the two early returns of on_capture.
CaptureRefused == ~region_ready \/ capturing

on_capture ==
    /\ pc = "listen"
    /\ IF CaptureRefused
       THEN UNCHANGED <<capturing, prev_capture, threads, capture_thread>>
       ELSE /\ capturing' = TRUE
            /\ prev_capture' = None
            /\ threads' = Append(threads, NewThread)
            /\ capture_thread' = Len(threads) + 1
    /\ UNCHANGED <<top_left, bottom_right, region_ready, ocr_buffer,
                   listener, pc, files>>

\* on_stop without the assignment of line 105.
on_stop_KeepsFlag ==
    /\ pc = "listen"
    /\ listener' = "stopped"
    /\ pc' = IF capture_thread # 0 THEN "join" ELSE "check"
    /\ UNCHANGED <<top_left, bottom_right, region_ready, ocr_buffer, capturing,
                   capture_thread, prev_capture, threads, files>>

\* Lines 103-107: stop the listener, clear the flag, go on to join.
on_stop ==
    /\ pc = "listen"
    /\ listener' = "stopped"
    /\ capturing' = FALSE
    /\ pc' = IF capture_thread # 0 THEN "join" ELSE "check"
    /\ UNCHANGED <<top_left, bottom_right, region_ready, ocr_buffer,
                   capture_thread, prev_capture, threads, files>>

\* on_stop without the wait of line 108.
JoinReturns_NoWait == TRUE

\* Line 108: capture_thread.join() returns once that thread has ended.
JoinReturns == Finished(capture_thread)

on_stop_join ==
    /\ pc = "join"
    /\ JoinReturns
    /\ pc' = "check"
    /\ UNCHANGED <<globals, threads, listener, files>>

\* Lines 109-111: exit at once on an empty buffer.
on_stop_check ==
    /\ pc = "check"
    /\ pc' = IF ocr_buffer = <<>> THEN "exit" ELSE "write"
    /\ UNCHANGED <<globals, threads, listener, files>>

\* Lines 118-124: write the joined buffer; a failure is caught and reported.
on_stop_write ==
    /\ pc = "write"
    /\ \/ files' = Append(files, join(ocr_buffer))
       \/ UNCHANGED files
    /\ pc' = "exit"
    /\ UNCHANGED <<globals, threads, listener>>

\* ------------------------------------------------------------ capture_loop
\* The process runs until sys.exit; its daemon threads end with it.
Step(t, at) == t \in DOMAIN threads /\ threads[t].at = at /\ pc # "exit"

Goto(t, at) == [threads EXCEPT ![t].at = at]

\* Lines 79-80: four reads of the globals, each through int(); bbox holds the
\* coordinates read so far, in the order x1, y1, x2, y2.
ReadCorner(t, k, corner, i, next) ==
    /\ Step(t, k)
    /\ threads' = IF corner = None
                  THEN Goto(t, "raised")
                  ELSE [threads EXCEPT ![t].bbox = Append(@, int(corner[i])),
                                       ![t].at = next]
    /\ UNCHANGED <<globals, listener, pc, files>>

capture_loop_x1(t) == ReadCorner(t, "x1", top_left, 1, "y1")
capture_loop_y1(t) == ReadCorner(t, "y1", top_left, 2, "x2")
\* The read of x2 with the index of y2.
capture_loop_x2_WrongIndex(t) == ReadCorner(t, "x2", bottom_right, 2, "y2")

capture_loop_x2(t) == ReadCorner(t, "x2", bottom_right, 1, "y2")
capture_loop_y2(t) == ReadCorner(t, "y2", bottom_right, 2, "while")

\* Line 82: while capturing.
capture_loop_while(t) ==
    /\ Step(t, "while")
    /\ threads' = Goto(t, IF capturing THEN "grab" ELSE "done")
    /\ UNCHANGED <<globals, listener, pc, files>>

\* Lines 83-85: ImageGrab.grab returns frame f; compare it with prev_capture.
capture_loop_grab(t, f) ==
    /\ Step(t, "grab")
    /\ threads' = [threads EXCEPT ![t].img = f,
                                  ![t].at = IF HasChanged(prev_capture, f)
                                            THEN "ocr" ELSE "sleep"]
    /\ UNCHANGED <<globals, listener, pc, files>>

\* capture_loop keeping only the latest chunk in the buffer.
capture_loop_ocr_Replace(t, text) ==
    /\ Step(t, "ocr")
    /\ IF ShouldAppend(ocr_buffer, text)
       THEN ocr_buffer' = <<text>>
       ELSE UNCHANGED ocr_buffer
    /\ prev_capture' = threads[t].img
    /\ threads' = Goto(t, "sleep")
    /\ UNCHANGED <<top_left, bottom_right, region_ready, capturing,
                   capture_thread, listener, pc, files>>

\* capture_loop keeping the frame only when its text is appended.
capture_loop_ocr_KeepOnAppend(t, text) ==
    /\ Step(t, "ocr")
    /\ IF ShouldAppend(ocr_buffer, text)
       THEN /\ ocr_buffer' = Append(ocr_buffer, text)
            /\ prev_capture' = threads[t].img
       ELSE UNCHANGED <<ocr_buffer, prev_capture>>
    /\ threads' = Goto(t, "sleep")
    /\ UNCHANGED <<top_left, bottom_right, region_ready, capturing,
                   capture_thread, listener, pc, files>>

\* Lines 86-94: image_to_string returns text; append it or not; keep the frame.
capture_loop_ocr(t, text) ==
    /\ Step(t, "ocr")
    /\ IF ShouldAppend(ocr_buffer, text)
       THEN ocr_buffer' = Append(ocr_buffer, text)
       ELSE UNCHANGED ocr_buffer
    /\ prev_capture' = threads[t].img
    /\ threads' = Goto(t, "sleep")
    /\ UNCHANGED <<top_left, bottom_right, region_ready, capturing,
                   capture_thread, listener, pc, files>>

\* capture_loop going from the sleep to the next grab without the loop test.
capture_loop_sleep_NoTest(t) ==
    /\ Step(t, "sleep")
    /\ threads' = Goto(t, "grab")
    /\ UNCHANGED <<globals, listener, pc, files>>

\* Line 95: time.sleep(0.5), then back to the loop test.
capture_loop_sleep(t) ==
    /\ Step(t, "sleep")
    /\ threads' = Goto(t, "while")
    /\ UNCHANGED <<globals, listener, pc, files>>

\* An exception of ImageGrab.grab or image_to_string ends the thread.
capture_loop_raise(t) ==
    /\ t \in DOMAIN threads
    /\ threads[t].at \in {"grab", "ocr"}
    /\ pc # "exit"
    /\ threads' = Goto(t, "raised")
    /\ UNCHANGED <<globals, listener, pc, files>>

\* ------------------------------------------------------------ specifications
\* The history variables: a hotkey command with the flags and the length of
\* the buffer it was dispatched in; a frame grabbed; an OCR result returned.
Cmd(op, p) == [op |-> op, pt |-> p, ready |-> region_ready,
               active |-> capturing, chunks |-> Len(ocr_buffer)]
Grabbed(f) == [polls EXCEPT !.frames = Append(@, f)]
Recognized(text) == [polls EXCEPT !.texts = Append(@, text)]

\* The steps of the capture_loop threads other than the grab and the OCR call.
LoopInit ==
    \/ \E t \in DOMAIN threads : capture_loop_x1(t)
    \/ \E t \in DOMAIN threads : capture_loop_y1(t)
    \/ \E t \in DOMAIN threads : capture_loop_x2(t)
    \/ \E t \in DOMAIN threads : capture_loop_y2(t)

LoopControl ==
    \/ \E t \in DOMAIN threads : capture_loop_while(t)
    \/ \E t \in DOMAIN threads : capture_loop_sleep(t)
    \/ \E t \in DOMAIN threads : capture_loop_raise(t)

StopSteps == on_stop_join \/ on_stop_check \/ on_stop_write

\* The region of the end-to-end scenario, and the same corners swapped.
ScenePoints == {<<0, 0>>, <<1, 1>>}

\* Spec: the whole program. The corners are marked at the scene's points, the
\* log is capped at MaxLog chunks, hist is the last command dispatched.
Next ==
    \/ \E p \in ScenePoints :
            on_mark_topleft(p) /\ hist' = <<Cmd("topleft", p)>> /\ UNCHANGED polls
    \/ \E p \in ScenePoints :
            on_mark_bottomright(p) /\ hist' = <<Cmd("bottomright", p)>>
                                   /\ UNCHANGED polls
    \/ on_capture /\ hist' = <<Cmd("capture", None)>> /\ UNCHANGED polls
    \/ on_stop /\ hist' = <<Cmd("stop", None)>> /\ UNCHANGED polls
    \/ StopSteps /\ UNCHANGED <<hist, polls>>
    \/ (LoopInit \/ LoopControl) /\ UNCHANGED <<hist, polls>>
    \/ \E t \in DOMAIN threads, f \in Frames :
            capture_loop_grab(t, f) /\ UNCHANGED <<hist, polls>>
    \/ \E t \in DOMAIN threads, text \in Texts :
            /\ ShouldAppend(ocr_buffer, text) => Len(ocr_buffer) < MaxLog
            /\ capture_loop_ocr(t, text)
            /\ UNCHANGED <<hist, polls>>

Spec == Init /\ [][Next]_vars

\* The steps of the capture_loop threads in Spec.
WorkerSteps ==
    \/ (LoopInit \/ LoopControl) /\ UNCHANGED <<hist, polls>>
    \/ \E t \in DOMAIN threads, f \in Frames :
            capture_loop_grab(t, f) /\ UNCHANGED <<hist, polls>>
    \/ \E t \in DOMAIN threads, text \in Texts :
            /\ ShouldAppend(ocr_buffer, text) => Len(ocr_buffer) < MaxLog
            /\ capture_loop_ocr(t, text)
            /\ UNCHANGED <<hist, polls>>

\* SpecFair: the program on the scene's region, with the scheduling of its
\* two threads. The listener thread goes on through on_stop once it has
\* entered it, and the worker thread goes on through capture_loop: its
\* ImageGrab.grab and image_to_string calls return or raise, and its sleep
\* ends. No hotkey is ever bound to be pressed.
NextFair ==
    \/ on_mark_topleft(<<0, 0>>) /\ UNCHANGED <<hist, polls>>
    \/ on_mark_bottomright(<<1, 1>>) /\ UNCHANGED <<hist, polls>>
    \/ on_capture /\ UNCHANGED <<hist, polls>>
    \/ on_stop /\ UNCHANGED <<hist, polls>>
    \/ StopSteps /\ UNCHANGED <<hist, polls>>
    \/ WorkerSteps

SpecFair ==
    /\ Init
    /\ [][NextFair]_vars
    /\ WF_vars(StopSteps /\ UNCHANGED <<hist, polls>>)
    /\ WF_vars(WorkerSteps)

\* SpecHist: region selection and the start of the capture, over every point
\* of the screen; hist is the whole sequence of commands, at most MaxCmds.
NextHist ==
    \/ /\ Len(hist) < MaxCmds
       /\ \/ \E p \in Points :
                on_mark_topleft(p) /\ hist' = Append(hist, Cmd("topleft", p))
          \/ \E p \in Points :
                on_mark_bottomright(p)
                    /\ hist' = Append(hist, Cmd("bottomright", p))
          \/ on_capture /\ hist' = Append(hist, Cmd("capture", None))
       /\ UNCHANGED polls
    \/ LoopInit /\ UNCHANGED <<hist, polls>>

SpecHist == Init /\ [][NextHist]_vars

\* SpecPolls: the capture of the scene's region from the marking of its
\* corners to the exit; polls is the sequence of the frames grabbed and of the
\* OCR results, at most MaxPolls frames and no OCR result an empty string.
NextPolls ==
    \/ on_mark_topleft(<<0, 0>>) /\ UNCHANGED <<hist, polls>>
    \/ on_mark_bottomright(<<1, 1>>) /\ UNCHANGED <<hist, polls>>
    \/ on_capture /\ UNCHANGED <<hist, polls>>
    \/ on_stop /\ UNCHANGED <<hist, polls>>
    \/ StopSteps /\ UNCHANGED <<hist, polls>>
    \/ (LoopInit \/ LoopControl) /\ UNCHANGED <<hist, polls>>
    \/ \E t \in DOMAIN threads, f \in Frames :
            /\ Len(polls.frames) < MaxPolls
            /\ capture_loop_grab(t, f)
            /\ polls' = Grabbed(f)
            /\ UNCHANGED hist
    \/ \E t \in DOMAIN threads, text \in Texts \ {<<>>} :
            /\ capture_loop_ocr(t, text)
            /\ polls' = Recognized(text)
            /\ UNCHANGED hist

SpecPolls == Init /\ [][NextPolls]_vars

\* ------------------------------------------------------------------ claims
Last(h) == h[Len(h)]
Joined == pc \in {"check", "write", "exit"}

\* C1: once capture_thread.join() has returned in on_stop, no step changes
\* ocr_buffer again, and a file that on_stop writes holds the buffer as it is
\* at the exit.
C1_JoinGuarantee ==
    /\ [][Joined => ocr_buffer' = ocr_buffer]_vars
    /\ [](pc = "exit" /\ files # <<>> => files = <<join(ocr_buffer)>>)

\* C1 witness: the stop was dispatched while the worker was inside an
\* iteration, the worker appended a chunk after it, and the join has returned.
C1_Witness ==
    /\ pc = "check"
    /\ hist # <<>>
    /\ Last(hist).op = "stop"
    /\ Last(hist).active
    /\ Len(ocr_buffer) > Last(hist).chunks
    /\ threads[capture_thread].at = "done"

Dispatched(op) == Len(hist') = Len(hist) + 1 /\ Last(hist').op = op

LowerRight(a, b) == b[1] > a[1] /\ b[2] > a[2]

\* C3: whenever region_ready is set, the recorded corners satisfy
\* bottom_right.x > top_left.x and bottom_right.y > top_left.y.
C3_RegionInvariant ==
    region_ready =>
        /\ top_left # None
        /\ bottom_right # None
        /\ LowerRight(top_left, bottom_right)

\* C4: an on_mark_bottomright whose point is not lower-right of the recorded
\* top_left leaves top_left, bottom_right and region_ready as they were.
C4_RejectedUnchanged ==
    [][Dispatched("bottomright") /\ top_left # None
            /\ ~LowerRight(top_left, Last(hist').pt)
        => UNCHANGED <<top_left, bottom_right, region_ready>>]_vars

\* C5: after on_mark_topleft at A and then on_mark_bottomright at B, with B
\* lower-right of A, the region is ready with the corners A and B; and when the
\* next command is an on_capture that starts the capture, the thread it starts
\* reads the bounding box (A.x, A.y, B.x, B.y).
C5_MarkedRegion ==
    LET n == Len(hist)
        \* The commands i and i + 1 are the two marks, at A and then at B.
        Marked(i) == /\ i >= 1
                     /\ hist[i].op = "topleft"
                     /\ hist[i + 1].op = "bottomright"
                     /\ LowerRight(hist[i].pt, hist[i + 1].pt)
    IN  /\ Marked(n - 1) =>
            /\ region_ready
            /\ top_left = hist[n - 1].pt
            /\ bottom_right = hist[n].pt
        /\ (Marked(n - 2) /\ hist[n].op = "capture" /\ ~hist[n].active) =>
            LET A == hist[n - 2].pt
                B == hist[n - 1].pt
                box == <<A[1], A[2], B[1], B[2]>>
                th == threads[capture_thread]
            IN  /\ capturing
                /\ Live = {capture_thread}
                /\ th.bbox = SubSeq(box, 1, Len(th.bbox))
                /\ th.at = "while" => th.bbox = box

\* C5 witness: (1, 0) and (2, 1) were marked, the capture was started next and
\* its thread has read the whole bounding box.
C5_Witness ==
    /\ Len(hist) = 3
    /\ hist[1].op = "topleft" /\ hist[1].pt = <<1, 0>>
    /\ hist[2].op = "bottomright" /\ hist[2].pt = <<2, 1>>
    /\ hist[3].op = "capture"
    /\ region_ready
    /\ capture_thread = 1
    /\ threads[1].at = "while"
    /\ threads[1].bbox = <<1, 0, 2, 1>>

\* C6: an on_mark_bottomright dispatched while top_left is None records no
\* corner and leaves the region not ready.
C6_NoTopLeftNoChange ==
    [][Dispatched("bottomright") /\ top_left = None
        => UNCHANGED <<top_left, bottom_right, region_ready>>]_vars

\* C7: an on_capture dispatched while region_ready is not set changes nothing:
\* no thread is created, capturing stays false, and prev_capture, ocr_buffer
\* and the corners are as before.
C7_UnreadyCaptureNoOp ==
    [][Dispatched("capture") /\ ~region_ready
        => /\ UNCHANGED prog
           /\ ~capturing'
           /\ threads' = <<>>]_vars

\* C7 witness: the last command was an on_capture dispatched with a top-left
\* corner marked and the region not ready; there is no thread.
C7_Witness ==
    /\ hist # <<>>
    /\ Last(hist).op = "capture"
    /\ ~Last(hist).ready
    /\ top_left # None
    /\ ~capturing
    /\ threads = <<>>

\* A text trimmed of its surrounding whitespace: from its first to its last
\* character that is not whitespace.
Trim(text) ==
    LET ink == {i \in 1..Len(text) : text[i] \notin WhiteSpace}
    IN  IF ink = {} THEN <<>>
        ELSE SubSeq(text, CHOOSE i \in ink : \A j \in ink : i <= j,
                          CHOOSE i \in ink : \A j \in ink : i >= j)

\* A step in which the OCR call of a worker returns.
OcrReturned == Len(polls'.texts) = Len(polls.texts) + 1

\* C8: an iteration whose OCR text trims to the trimmed last chunk leaves
\* ocr_buffer unchanged, and no two adjacent chunks of ocr_buffer are equal
\* after trimming.
C8_DuplicateSuppressed ==
    /\ [][OcrReturned /\ ocr_buffer # <<>>
            /\ Trim(Last(polls'.texts)) = Trim(Last(ocr_buffer))
          => ocr_buffer' = ocr_buffer]_vars
    /\ [](\A i \in 1..(Len(ocr_buffer) - 1) :
            Trim(ocr_buffer[i]) # Trim(ocr_buffer[i + 1]))

\* C8 witness: the frames X and Y gave "a" and " a\n"; the second text was
\* suppressed and the frame Y kept.
C8_Witness ==
    /\ polls.frames = <<X, Y>>
    /\ polls.texts = <<(<<"a">>), <<" ", "a", "\n">> >>
    /\ ocr_buffer = << <<"a">> >>
    /\ prev_capture = Y

\* C9: an iteration whose OCR text trims to the empty string leaves ocr_buffer
\* unchanged, and every chunk of ocr_buffer is non-empty after trimming.
C9_EmptySuppressed ==
    /\ [][\A t \in DOMAIN threads, text \in Texts :
            capture_loop_ocr(t, text) /\ Trim(text) = <<>>
                => ocr_buffer' = ocr_buffer]_vars
    /\ [](\A i \in 1..Len(ocr_buffer) : Trim(ocr_buffer[i]) # <<>>)

\* C9 witness: an OCR call has returned (a frame is kept) with the buffer
\* empty before and after it: its text trimmed to the empty string.
C9_Witness ==
    /\ capturing
    /\ capture_thread # 0
    /\ threads[capture_thread].at = "sleep"
    /\ prev_capture = threads[capture_thread].img
    /\ prev_capture # None
    /\ ocr_buffer = <<>>

\* The frames that differ from the frame before them; the first always does.
Fresh(frames) ==
    {i \in 1..Len(frames) : i = 1 \/ frames[i] # frames[i - 1]}

RECURSIVE Kept(_)
\* Of a sequence of texts, those that do not trim to the empty string nor to
\* the trim of the last text kept before them, verbatim.
Kept(texts) ==
    IF texts = <<>> THEN <<>>
    ELSE LET before == Kept(SubSeq(texts, 1, Len(texts) - 1))
             text == Last(texts)
         IN  IF Trim(text) = <<>> THEN before
             ELSE IF before # <<>> /\ Trim(text) = Trim(Last(before))
                  THEN before
                  ELSE Append(before, text)

\* The reference log of a run: the texts kept of the OCR results of its fresh
\* frames, taken in order.
Reference(frames, texts) ==
    LET k == Cardinality(Fresh(frames))
    IN  Kept(SubSeq(texts, 1, IF Len(texts) < k THEN Len(texts) ELSE k))

\* C10: once the join of on_stop has returned, ocr_buffer is the reference
\* log of the frames polled and the OCR results; when the worker left its
\* loop at the test of line 82, every fresh frame had its OCR result.
C10_LogIsReference ==
    Joined =>
        /\ ocr_buffer = Reference(polls.frames, polls.texts)
        /\ (capture_thread # 0 /\ threads[capture_thread].at = "done")
                => Len(polls.texts) = Cardinality(Fresh(polls.frames))

\* C10 witness: the frames X, X, Y, Z with the OCR results "a", "a", "b" gave
\* the log ["a", "b"], written as "a\nb".
C10_Witness ==
    /\ pc = "exit"
    /\ polls.frames = <<X, X, Y, Z>>
    /\ polls.texts = << <<"a">>, <<"a">>, <<"b">> >>
    /\ ocr_buffer = << <<"a">>, <<"b">> >>
    /\ files = << <<"a", "\n", "b">> >>

RECURSIVE NewlineJoined(_)
\* The chunks in order, verbatim, with one newline between two of them.
NewlineJoined(chunks) ==
    IF chunks = <<>> THEN <<>>
    ELSE IF Len(chunks) = 1 THEN chunks[1]
    ELSE NewlineJoined(SubSeq(chunks, 1, Len(chunks) - 1))
            \o <<"\n">> \o Last(chunks)

IsPrefix(a, b) ==
    /\ Len(a) <= Len(b)
    /\ \A i \in 1..Len(a) : a[i] = b[i]

\* A step of the dispatcher: it handles a command or moves on_stop forward.
DispatcherStep ==
    \/ hist' # hist
    \/ pc' # pc
    \/ <<top_left, bottom_right, region_ready, capturing, capture_thread,
         listener, files>>' #
       <<top_left, bottom_right, region_ready, capturing, capture_thread,
         listener, files>>

\* C12: across every step the old ocr_buffer is a prefix of the new one and
\* at most one chunk longer; the buffer grows only in the step of a worker
\* iteration that returns from the OCR call, and no step of the dispatcher
\* (a mark, a start-capture, a stop) changes it.
C12_AppendOnly ==
    [][/\ IsPrefix(ocr_buffer, ocr_buffer')
       /\ Len(ocr_buffer') <= Len(ocr_buffer) + 1
       /\ ocr_buffer' # ocr_buffer =>
            \E t \in DOMAIN threads :
                threads[t].at = "ocr" /\ threads'[t].at = "sleep"
       /\ DispatcherStep => ocr_buffer' = ocr_buffer]_vars

\* C12 witness: a mark-top-left was dispatched during the capture with one
\* chunk in the buffer, and the worker appended a second chunk after it.
C12_Witness ==
    /\ hist # <<>>
    /\ Last(hist).op = "topleft"
    /\ Last(hist).active
    /\ Last(hist).chunks = 1
    /\ Len(ocr_buffer) = 2

\* C13: once capturing is set it stays set until on_stop clears it: a
\* mark-top-left, mark-bottom-right or start-capture handled during the
\* capture leaves the flag set and the worker thread as it is, no step other
\* than on_stop clears the flag, and the worker leaves its loop by the loop
\* test only with the flag cleared.
C13_CapturingUntilStop ==
    /\ [][capturing /\ hist' # <<>> /\ Last(hist').op # "stop"
            => capturing' /\ (hist' # hist => threads' = threads)]_vars
    /\ [][capturing /\ ~capturing' => on_stop]_vars
    /\ [][\A t \in DOMAIN threads :
            threads[t].at # "done" /\ threads'[t].at = "done" => ~capturing]_vars

\* C13 witness: a start-capture was dispatched while the worker was between
\* the grab and the OCR call, and the capture goes on.
C13_Witness ==
    /\ hist # <<>>
    /\ Last(hist).op = "capture"
    /\ Last(hist).active
    /\ capturing
    /\ capture_thread # 0
    /\ threads[capture_thread].at = "ocr"
    /\ Len(ocr_buffer) = 1

\* C14: every mark-top-left records its point as top_left and leaves the
\* region not ready, so that a start-capture is rejected until a valid
\* mark-bottom-right follows.
C14_TopLeftUnreadies ==
    [][Dispatched("topleft") =>
            /\ top_left' = Last(hist').pt
            /\ ~region_ready'
            /\ CaptureRefused']_vars

\* C15: a stop is handled in every state in which the listener runs; once
\* on_stop is entered the process reaches its exit, whether the write
\* succeeds or fails, given that the worker's calls in flight return; and
\* after the exit nothing changes any more: no command is handled and no
\* worker step runs.
C15_StopTerminates ==
    /\ [](pc = "listen" => ENABLED on_stop)
    /\ (pc # "listen") ~> (pc = "exit")
    /\ [](pc = "exit" => [](pc = "exit"))
    /\ [][pc = "exit" => UNCHANGED prog]_vars
    /\ [](pc = "exit" => ~ENABLED NextFair)

\* C15 witness: the stop came during the capture, the worker has left its
\* loop, the write failed, and the process is at its exit.
C15_Witness ==
    /\ pc = "exit"
    /\ listener = "stopped"
    /\ ~capturing
    /\ Len(ocr_buffer) = 2
    /\ files = <<>>
    /\ capture_thread # 0
    /\ threads[capture_thread].at = "done"

\* A step in which ImageGrab.grab returns a frame.
GrabReturned == Len(polls'.frames) = Len(polls.frames) + 1

PixelsDiffer(a, b) == \E i \in 1..2 : a[i] # b[i]

\* C16: an iteration whose frame equals the retained previous frame in every
\* pixel goes on to the sleep without an OCR call and leaves ocr_buffer as it
\* is; an iteration whose frame differs from it in at least one pixel always
\* goes on to the OCR call; the OCR call returns, and ocr_buffer changes,
\* only in an iteration whose frame differed or was the first.
C16_OcrIffChanged ==
    /\ [][GrabReturned /\ prev_capture # None =>
            LET f == Last(polls'.frames)
                at == threads'[capture_thread].at
            IN  IF PixelsDiffer(prev_capture, f)
                THEN at = "ocr"
                ELSE at = "sleep" /\ ocr_buffer' = ocr_buffer]_vars
    /\ [][OcrReturned \/ ocr_buffer' # ocr_buffer =>
            /\ OcrReturned
            /\ \/ prev_capture = None
               \/ PixelsDiffer(prev_capture, Last(polls.frames))]_vars

\* C16 witness: the second frame equalled the first and was not recognized,
\* the third differs from it in one pixel and is about to be.
C16_Witness ==
    /\ polls.frames = <<X, X, Y>>
    /\ Len(polls.texts) = 1
    /\ prev_capture = X
    /\ threads[capture_thread].at = "ocr"

\* C17: the OCR call's return makes the iteration's frame the retained frame
\* whether its text is appended or suppressed; whenever the worker sleeps at
\* the end of an iteration, or tests the flag after one, prev_capture equals
\* the last frame grabbed in every pixel; and a grab that returns the same
\* frame as the grab before it is never followed by an OCR call.
C17_PrevIsLastFrame ==
    /\ [][OcrReturned => prev_capture' = Last(polls.frames)]_vars
    /\ [](\A t \in DOMAIN threads :
            threads[t].at \in {"sleep", "while", "done"} /\ polls.frames # <<>>
                => /\ prev_capture # None
                   /\ ~PixelsDiffer(prev_capture, Last(polls.frames)))
    /\ [][GrabReturned /\ polls.frames # <<>>
            /\ ~PixelsDiffer(Last(polls.frames), Last(polls'.frames))
                => threads'[capture_thread].at = "sleep"]_vars

\* C17 witness: the text of the first frame was whitespace and was
\* suppressed; the frame was retained, so the same frame grabbed again went
\* to the sleep without a second OCR call.
C17_Witness ==
    /\ polls.frames = <<Z, Z>>
    /\ polls.texts = << <<" ">> >>
    /\ ocr_buffer = <<>>
    /\ prev_capture = Z
    /\ threads[capture_thread].at = "sleep"

\* C18: an accepted start-capture leaves prev_capture absent and the new
\* worker not yet running; prev_capture stays absent until the first OCR
\* call returns; and the first grab of the capture, whatever frame it
\* returns, is followed by the OCR call.
C18_FirstFrameProcessed ==
    /\ [][capture_thread' # capture_thread =>
            /\ prev_capture' = None
            /\ threads'[capture_thread'] = NewThread]_vars
    /\ [](polls.texts = <<>> => prev_capture = None)
    /\ [][GrabReturned /\ polls.frames = <<>> =>
            threads'[capture_thread].at = "ocr"]_vars

\* C18 witness: the first grab has returned a frame and the worker is in the
\* OCR call for it.
C18_Witness ==
    /\ polls.frames = <<Z>>
    /\ polls.texts = <<>>
    /\ prev_capture = None
    /\ capturing
    /\ threads[capture_thread].at = "ocr"
    /\ threads[capture_thread].img = Z

\* C19: the worker reads the flag only in the loop test; it enters a grab
\* only from a loop test that saw the flag set, and a worker that has left
\* its loop does nothing more; once a stop has been dispatched the flag stays
\* cleared and ocr_buffer holds at most one chunk more than at the stop.
C19_BoundedCancel ==
    /\ [][\A t \in DOMAIN threads :
            /\ threads[t].at # "grab" /\ threads'[t].at = "grab"
                    => threads[t].at = "while" /\ capturing
            /\ threads[t].at = "while" /\ threads'[t].at # "while"
                    => threads'[t].at = IF capturing THEN "grab" ELSE "done"
            /\ Finished(t) => threads'[t] = threads[t]]_vars
    /\ [](hist # <<>> /\ Last(hist).op = "stop" =>
            /\ ~capturing
            /\ Len(ocr_buffer) <= Last(hist).chunks + 1)

\* C19 witness: the stop came during an iteration with one chunk logged; the
\* worker finished that iteration, appended a second chunk and left its
\* loop; the process is at its exit.
C19_Witness ==
    /\ pc = "exit"
    /\ hist # <<>>
    /\ Last(hist).op = "stop"
    /\ Last(hist).active
    /\ Last(hist).chunks = 1
    /\ Len(ocr_buffer) = 2
    /\ threads[capture_thread].at = "done"

\* C20: the bounding box a worker has computed is valid: its x2 is greater
\* than its x1 and its y2 greater than its y1.
C20_BoxValid ==
    \A t \in DOMAIN threads :
        Len(threads[t].bbox) = 4 =>
            /\ threads[t].bbox[3] > threads[t].bbox[1]
            /\ threads[t].bbox[4] > threads[t].bbox[2]

====
